---- MODULE Spec2Model ----
(***************************************************************************)
(* The elephant-alert dashboard (src/App.tsx): the App component's session *)
(* state, its 15 s alert-synthesis timer, the notification modal, and the  *)
(* Leaflet map owned by every mounted MapView.                             *)
(*                                                                         *)
(* Units: coordinates are micro-degrees (6.8 deg = 6800000), instants are  *)
(* milliseconds relative to page load, a Math.random() result r is the     *)
(* integer r * RandomScale.                                                *)
(*                                                                         *)
(* The specifications share the variables. Spec is the session of App: its *)
(* callbacks and the render each one causes. MapSpec is one MapView, the   *)
(* component that owns a Leaflet map: React mounts it, re-renders it with  *)
(* new props and unmounts it, and its effects run each time. A MapView     *)
(* reads nothing of App but its props and App reads nothing of a MapView,  *)
(* so each specification leaves the other's variables alone. DetachedSpec  *)
(* is a MapView that may find mapContainerRef.current null at a mount.     *)
(***************************************************************************)
EXTENDS Integers, Sequences, FiniteSets, TLC

VARIABLES
    activePage,         \* App.activePage
    isSidebarOpen,      \* App.isSidebarOpen
    alerts,             \* App.alerts, the alert ledger, newest first
    devices,            \* App.devices
    highSeverityAlert,  \* App.highSeverityAlert, Null or an alert
    selectedDevice,     \* App.selectedDevice, Null or a device
    appMounted,         \* the App component is mounted (the session is live)
    intervalActive,     \* the setInterval timer of App is scheduled
    intervalsCreated,   \* number of setInterval calls
    intervalsCleared,   \* number of clearInterval calls
    ticks,              \* number of runs of the interval callback
    uncaught,           \* number of interval callbacks that threw
    preempted,          \* the alert the last fired tick replaced in the modal
    detailAlerts,       \* the alerts prop of DeviceDetailModal, Null when closed
    view,               \* the MapView instance: its refs and its props
    maps,               \* every L.map ever created, by creation number
    mounts,             \* number of MapView mounts
    unmounts            \* number of MapView unmounts

vars == <<activePage, isSidebarOpen, alerts, devices, highSeverityAlert,
          selectedDevice, appMounted, intervalActive, intervalsCreated,
          intervalsCleared, ticks, uncaught, preempted, detailAlerts, view,
          maps, mounts, unmounts>>

appVars == <<activePage, isSidebarOpen, alerts, devices, highSeverityAlert,
             selectedDevice, appMounted, intervalActive, intervalsCreated,
             intervalsCleared, ticks, uncaught, preempted, detailAlerts>>

mapVars == <<view, maps, mounts, unmounts>>

----------------------------------------------------------------------------
(* Bounds of the model *)

\* the interval callback runs at most MaxTicks times
MaxTicks == 2
\* a MapView is mounted at most MaxMounts times
MaxMounts == 2
\* the device directory holds at most MaxDevices devices
MaxDevices == 1

(* Constants of the program *)

\* Math.random() returns one of 0/1000 .. 999/1000
RandomScale == 1000
\* `Math.random() > 0.9`
FireThreshold == 900
\* `Math.floor(Math.random() * 1000)`
IdRange == 1000
\* `(Math.random() - 0.5) * 0.01` degrees spans 0.01 deg = 10000 micro-degrees
NoiseSpan == 10000
\* setInterval(..., 15000)
IntervalMs == 15000
\* L.circle radius
CircleRadius == 200

\* the values of Math.random() explored for each call of the callback
CoinDraws == {0, 900, 901, 999}
DeviceDraws == {0, 500, 999}
IdDraws == {7, 999}
LatDraws == {0}
LngDraws == {999}

Null == [null |-> TRUE]

----------------------------------------------------------------------------
(* Data: types.ts and data.ts *)

High == "High"
Medium == "Medium"
Low == "Low"
Resolved == "Resolved"

Online == "Online"
Offline == "Offline"
LowBattery == "Low Battery"

Dashboard == "Dashboard"
Map == "Map"
Analytics == "Analytics"
Alerts == "Alerts"
Devices == "Devices"
Users == "Users"

NavPage == {Dashboard, Map, Analytics, Alerts, Devices, Users}

\* subHours(now, 1) is one hour before page load
HourMs == 3600000

mockAlerts ==
    << [id |-> "A001", timestamp |-> -1 * HourMs,
        location |-> [lat |-> 6800000, lng |-> 80800000],
        severity |-> High, deviceId |-> "D101"],
       [id |-> "A002", timestamp |-> -2 * HourMs,
        location |-> [lat |-> 6820000, lng |-> 80810000],
        severity |-> Medium, deviceId |-> "D102"],
       [id |-> "A003", timestamp |-> -5 * HourMs,
        location |-> [lat |-> 6790000, lng |-> 80780000],
        severity |-> Low, deviceId |-> "D103"],
       [id |-> "A004", timestamp |-> -8 * HourMs,
        location |-> [lat |-> 6810000, lng |-> 80830000],
        severity |-> Resolved, deviceId |-> "D101"],
       [id |-> "A005", timestamp |-> -12 * HourMs,
        location |-> [lat |-> 6830000, lng |-> 80790000],
        severity |-> Resolved, deviceId |-> "D104"] >>

mockDevices ==
    << [id |-> "D101", status |-> Online, battery |-> 89,
        lastPing |-> -1 * (HourMs \div 10),
        location |-> [lat |-> 6800000, lng |-> 80800000]],
       [id |-> "D102", status |-> Online, battery |-> 72,
        lastPing |-> -2 * (HourMs \div 10),
        location |-> [lat |-> 6820000, lng |-> 80810000]],
       [id |-> "D103", status |-> LowBattery, battery |-> 15,
        lastPing |-> -1 * HourMs,
        location |-> [lat |-> 6790000, lng |-> 80780000]],
       [id |-> "D104", status |-> Offline, battery |-> 55,
        lastPing |-> -6 * HourMs,
        location |-> [lat |-> 6830000, lng |-> 80790000]],
       [id |-> "D105", status |-> Online, battery |-> 95,
        lastPing |-> -3 * (HourMs \div 10),
        location |-> [lat |-> 6850000, lng |-> 80850000]] >>

\* The device directories explored: every run of at most MaxDevices
\* consecutive devices of data.ts, the empty directory included.
DeviceLists ==
    { SubSeq(mockDevices, a, b) :
        <<a, b>> \in { w \in (1..Len(mockDevices)) \X (0..Len(mockDevices)) :
                         /\ w[2] >= w[1] - 1
                         /\ w[2] - w[1] + 1 <= MaxDevices
                         /\ (w[2] = w[1] - 1 => w[1] = 1) } }

----------------------------------------------------------------------------
(* App: the session state, the synthesis timer, the modals *)

\* Math.floor(r * n) for a Math.random() result r
FloorScaled(r, n) == (r * n) \div RandomScale

\* a coin that also fires on a draw of exactly 0.9
ShouldTriggerAlertFrom(r) == r >= FireThreshold

\* `Math.random() > 0.9`
ShouldTriggerAlert(r) == r > FireThreshold

\* `A${Math.floor(Math.random() * 1000)}`: the number printed in decimal,
\* without padding
AlertId(r) == "A" \o ToString(FloorScaled(r, IdRange))

\* a perturbation that is not centred on the device
NoiseUncentred(r) == (r * NoiseSpan) \div RandomScale

\* `(Math.random() - 0.5) * 0.01` in micro-degrees
Noise(r) == ((2 * r - RandomScale) * NoiseSpan) \div (2 * RandomScale)

\* a synthesizer that emits Medium alerts
NewSeverityMedium == Medium

\* the severity of a synthesized alert
NewSeverity == High

\* the alert the interval callback builds from its device and its draws
NewAlert(randomDevice, now, rId, rLat, rLng) ==
    [id |-> AlertId(rId),
     timestamp |-> now,
     location |-> [lat |-> randomDevice.location.lat + Noise(rLat),
                   lng |-> randomDevice.location.lng + Noise(rLng)],
     severity |-> NewSeverity,
     deviceId |-> randomDevice.id]

\* `devices[Math.floor(Math.random() * devices.length)]`
RandomDevice(devs, r) == devs[FloorScaled(r, Len(devs)) + 1]

\* a ledger that adds at the end
PrependAtEnd(newAlert, prev) == Append(prev, newAlert)

\* setAlerts(prev => [newAlert, ...prev])
Prepend(newAlert, prev) == <<newAlert>> \o prev

\* a gate that keeps the alert it shows until it is acknowledged
InterruptIfIdle(newAlert, current) ==
    IF current = Null THEN newAlert ELSE current

\* setHighSeverityAlert(newAlert)
Interrupt(newAlert, current) == newAlert

\* a filter that compares the alert's own id
AlertsOfDeviceById(als, id) == SelectSeq(als, LAMBDA a : a.id = id)

\* alerts.filter(a => a.deviceId === selectedDevice.id)
AlertsOfDevice(als, id) == SelectSeq(als, LAMBDA a : a.deviceId = id)

\* the alerts prop of DeviceDetailModal, rendered while a device is selected
DetailAlerts(sel, als) ==
    IF sel = Null THEN Null ELSE AlertsOfDevice(als, sel.id)

\* clearInterval(interval)
ClearInterval ==
    /\ intervalActive' = FALSE
    /\ intervalsCleared' = intervalsCleared + 1

\* a cleanup that leaves the timer running
TimerCleanupLeak == UNCHANGED <<intervalActive, intervalsCleared>>

\* the cleanup of the timer effect of App
TimerCleanup == ClearInterval

\* The state of App after its first render and its effects: the Dashboard,
\* no modal, the timer scheduled.
AppInit ==
    /\ devices \in DeviceLists
    /\ activePage = Dashboard
    /\ isSidebarOpen = FALSE
    /\ alerts = mockAlerts
    /\ highSeverityAlert = Null
    /\ selectedDevice = Null
    /\ appMounted = TRUE
    /\ intervalActive = TRUE
    /\ intervalsCreated = 1
    /\ intervalsCleared = 0
    /\ ticks = 0
    /\ uncaught = 0
    /\ preempted = Null
    /\ detailAlerts = Null

\* The interval callback runs, with the results of its Math.random() calls.
\* With no device, devices[0] is undefined and reading its location throws
\* before any state is set.
Tick(rCoin, rDev, rId, rLat, rLng) ==
    /\ intervalActive
    /\ ticks < MaxTicks
    /\ ticks' = ticks + 1
    /\ UNCHANGED <<activePage, isSidebarOpen, devices, selectedDevice,
                   appMounted, intervalActive, intervalsCreated,
                   intervalsCleared>>
    /\ IF ~ShouldTriggerAlert(rCoin)
       THEN UNCHANGED <<alerts, highSeverityAlert, uncaught, preempted,
                        detailAlerts>>
       ELSE IF Len(devices) = 0
       THEN /\ uncaught' = uncaught + 1
            /\ UNCHANGED <<alerts, highSeverityAlert, preempted, detailAlerts>>
       ELSE LET newAlert == NewAlert(RandomDevice(devices, rDev),
                                     (ticks + 1) * IntervalMs, rId, rLat, rLng)
            IN  /\ alerts' = Prepend(newAlert, alerts)
                /\ highSeverityAlert' = Interrupt(newAlert, highSeverityAlert)
                /\ preempted' = highSeverityAlert
                /\ detailAlerts' = DetailAlerts(selectedDevice, alerts')
                /\ UNCHANGED uncaught
    /\ UNCHANGED mapVars

\* an onClose that leaves the modal's alert in place
OnCloseKeepsAlert == highSeverityAlert

\* NotificationModal onClose: setHighSeverityAlert(null)
OnCloseNotification == Null

\* an acknowledgement that also takes the alert out of the ledger
AcknowledgeDeletes ==
    /\ appMounted
    /\ highSeverityAlert # Null
    /\ highSeverityAlert' = OnCloseNotification
    /\ preempted' = Null
    /\ alerts' = SelectSeq(alerts, LAMBDA a : a # highSeverityAlert)
    /\ detailAlerts' = DetailAlerts(selectedDevice, alerts')
    /\ UNCHANGED <<activePage, isSidebarOpen, devices, selectedDevice,
                   appMounted, intervalActive, intervalsCreated,
                   intervalsCleared, ticks, uncaught>>
    /\ UNCHANGED mapVars

\* the Acknowledge button or the backdrop of the NotificationModal, which
\* is rendered while highSeverityAlert is set
Acknowledge ==
    /\ appMounted
    /\ highSeverityAlert # Null
    /\ highSeverityAlert' = OnCloseNotification
    /\ preempted' = Null
    /\ UNCHANGED <<activePage, isSidebarOpen, alerts, devices, selectedDevice,
                   appMounted, intervalActive, intervalsCreated,
                   intervalsCleared, ticks, uncaught, detailAlerts>>
    /\ UNCHANGED mapVars

\* a Sidebar link: setActivePage(item.page); setSidebarOpen(false)
Navigate(page) ==
    /\ appMounted
    /\ activePage # page \/ isSidebarOpen
    /\ activePage' = page
    /\ isSidebarOpen' = FALSE
    /\ UNCHANGED <<alerts, devices, highSeverityAlert, selectedDevice,
                   appMounted, intervalActive, intervalsCreated,
                   intervalsCleared, ticks, uncaught, preempted, detailAlerts>>
    /\ UNCHANGED mapVars

\* TopNavbar onMenuClick: setSidebarOpen(true)
OpenSidebar ==
    /\ appMounted
    /\ ~isSidebarOpen
    /\ isSidebarOpen' = TRUE
    /\ UNCHANGED <<activePage, alerts, devices, highSeverityAlert,
                   selectedDevice, appMounted, intervalActive,
                   intervalsCreated, intervalsCleared, ticks, uncaught,
                   preempted, detailAlerts>>
    /\ UNCHANGED mapVars

\* the Sidebar backdrop or close button: setSidebarOpen(false)
CloseSidebar ==
    /\ appMounted
    /\ isSidebarOpen
    /\ isSidebarOpen' = FALSE
    /\ UNCHANGED <<activePage, alerts, devices, highSeverityAlert,
                   selectedDevice, appMounted, intervalActive,
                   intervalsCreated, intervalsCleared, ticks, uncaught,
                   preempted, detailAlerts>>
    /\ UNCHANGED mapVars

\* a DeviceStatusCard of DevicesPage: setSelectedDevice(device)
SelectDevice(device) ==
    /\ appMounted
    /\ activePage = Devices
    /\ selectedDevice # device
    /\ selectedDevice' = device
    /\ detailAlerts' = DetailAlerts(device, alerts)
    /\ UNCHANGED <<activePage, isSidebarOpen, alerts, devices,
                   highSeverityAlert, appMounted, intervalActive,
                   intervalsCreated, intervalsCleared, ticks, uncaught,
                   preempted>>
    /\ UNCHANGED mapVars

\* DeviceDetailModal onClose: setSelectedDevice(null)
CloseDeviceDetail ==
    /\ appMounted
    /\ selectedDevice # Null
    /\ selectedDevice' = Null
    /\ detailAlerts' = DetailAlerts(Null, alerts)
    /\ UNCHANGED <<activePage, isSidebarOpen, alerts, devices,
                   highSeverityAlert, appMounted, intervalActive,
                   intervalsCreated, intervalsCleared, ticks, uncaught,
                   preempted>>
    /\ UNCHANGED mapVars

\* App is unmounted (the page is left): the timer effect is cleaned up.
\* Nothing is rendered any more.
Teardown ==
    /\ appMounted
    /\ appMounted' = FALSE
    /\ TimerCleanup
    /\ detailAlerts' = Null
    /\ UNCHANGED <<activePage, isSidebarOpen, alerts, devices,
                   highSeverityAlert, selectedDevice, intervalsCreated,
                   ticks, uncaught, preempted>>
    /\ UNCHANGED mapVars

----------------------------------------------------------------------------
(* MapView: the component and the Leaflet map it owns *)

\* no MapView instance. Beside the refs and the props of the last render, a
\* view records the props of the render before it (Null at the mount) and
\* the effects the last render ran.
NoView ==
    [mounted |-> FALSE, mapRef |-> 0, dataLayerRef |-> 0, props |-> Null,
     prevProps |-> Null, effects |-> {}]

\* statusColorClass of a device marker
StatusColorClass(status) ==
    IF status = Online THEN "bg-green-500"
    ELSE IF status = LowBattery THEN "bg-yellow-500"
    ELSE "bg-red-500"

\* L.marker(...).addTo(layerGroup).bindPopup(...)
DeviceMarker(device) ==
    [kind |-> "marker",
     lat |-> device.location.lat, lng |-> device.location.lng,
     icon |-> StatusColorClass(device.status),
     popup |-> [device |-> device.id, battery |-> device.battery]]

\* the colour of an alert circle
CircleColor(severity) == IF severity = High THEN "red" ELSE "orange"

\* L.circle(...).addTo(layerGroup).bindPopup(...)
AlertCircle(alert) ==
    [kind |-> "circle",
     lat |-> alert.location.lat, lng |-> alert.location.lng,
     color |-> CircleColor(alert.severity),
     fillColor |-> CircleColor(alert.severity),
     radius |-> CircleRadius,
     popup |-> [alert |-> alert.id, severity |-> alert.severity]]

\* devices.forEach(...): one marker per device, in order
AddDeviceMarkers(layers, devs) ==
    layers \o [i \in 1..Len(devs) |-> DeviceMarker(devs[i])]

\* a test that lets every alert through
DrawsCircleAlways(alert) == TRUE

\* `alert.severity !== AlertSeverity.Resolved`
DrawsCircle(alert) == alert.severity # Resolved

\* alerts.forEach(...): one circle per alert that passes the test, in order
AddAlertCircles(layers, als) ==
    LET shown == SelectSeq(als, DrawsCircle)
    IN  layers \o [i \in 1..Len(shown) |-> AlertCircle(shown[i])]

\* a sync that does not clear the group first
ClearLayersKeeps(layers) == layers

\* layerGroup.clearLayers()
ClearLayers(layers) == << >>

\* the body of the data-layer effect on the layers of a layer group
OverlaySync(layers, devs, als) ==
    AddAlertCircles(AddDeviceMarkers(ClearLayers(layers), devs), als)

\* map.setView(center, zoom)
SetView(m, center, zoom) == [m EXCEPT !.center = center, !.zoom = zoom]

\* L.map(container).setView(center, zoom), the tile layer, the empty layer
\* group added to the map and the pending
\* setTimeout(() => map.invalidateSize(), 100)
NewMap(center, zoom) ==
    SetView([alive |-> TRUE, center |-> Null, zoom |-> 0, layers |-> << >>,
             removes |-> 0, sizeFix |-> "pending"], center, zoom)

\* map.remove(): the map and every layer on it leave the page
MapRemove(m) ==
    [m EXCEPT !.alive = FALSE, !.layers = << >>, !.removes = @ + 1]

\* a cleanup that forgets the map without removing it
CleanupLeak(st) == [st EXCEPT !.view.mapRef = 0]

\* the cleanup of the initialization effect
Cleanup(st) ==
    IF st.view.mapRef # 0
    THEN [st EXCEPT !.maps[st.view.mapRef] = MapRemove(@),
                    !.view.mapRef = 0]
    ELSE st

\* an initialization effect that does not test its container
InitEffectUnguarded(st, container) ==
    LET id == Len(st.maps) + 1
    IN  [st EXCEPT !.maps = Append(@, NewMap(st.view.props.center,
                                             st.view.props.zoom)),
                   !.view.dataLayerRef = id,
                   !.view.mapRef = id,
                   !.view.effects = @ \cup {"init"}]

\* the initialization effect, run once per mount
InitEffect(st, container) ==
    LET id == Len(st.maps) + 1
        ran == [st EXCEPT !.view.effects = @ \cup {"init"}]
    IN  IF container /\ st.view.mapRef = 0
        THEN [ran EXCEPT !.maps = Append(@, NewMap(st.view.props.center,
                                                   st.view.props.zoom)),
                         !.view.dataLayerRef = id,
                         !.view.mapRef = id]
        ELSE ran

\* a camera effect that leaves the map where it was
CameraEffectStale(st) == [st EXCEPT !.view.effects = @ \cup {"camera"}]

\* the effect on [center, zoom]
CameraEffect(st) ==
    LET ran == [st EXCEPT !.view.effects = @ \cup {"camera"}]
    IN  IF st.view.mapRef # 0
        THEN [ran EXCEPT !.maps[st.view.mapRef] =
                             SetView(@, st.view.props.center,
                                     st.view.props.zoom)]
        ELSE ran

\* the effect on [devices, alerts]
OverlayEffect(st) ==
    LET ran == [st EXCEPT !.view.effects = @ \cup {"overlay"}]
    IN  IF st.view.dataLayerRef # 0
        THEN [ran EXCEPT !.maps[st.view.dataLayerRef].layers =
                             OverlaySync(@, st.view.props.devices,
                                         st.view.props.alerts)]
        ELSE ran

\* React mounts the MapView: fresh refs, then the three effects in source
\* order
Mount(st, props, container) ==
    LET m == [st EXCEPT !.view = [mounted |-> TRUE, mapRef |-> 0,
                                  dataLayerRef |-> 0, props |-> props,
                                  prevProps |-> Null, effects |-> {}],
                        !.mounts = @ + 1]
    IN  OverlayEffect(CameraEffect(InitEffect(m, container)))

\* React re-renders the MapView with new props: an effect runs again when
\* one of its dependencies is another object than at the last render.
\* newCenter and newData tell whether the caller built the arrays anew (an
\* inline array literal is a new object on every render).
Update(st, props, newCenter, newData) ==
    LET old == st.view.props
        u == [st EXCEPT !.view.props = props, !.view.prevProps = old,
                        !.view.effects = {}]
        c == IF \/ newCenter
                \/ props.center # old.center
                \/ props.zoom # old.zoom
             THEN CameraEffect(u) ELSE u
    IN  IF \/ newData
           \/ props.devices # old.devices
           \/ props.alerts # old.alerts
        THEN OverlayEffect(c) ELSE c

\* React unmounts the MapView: the cleanup runs, the instance and its refs
\* are dropped
Unmount(st) == [Cleanup(st) EXCEPT !.view = NoView, !.unmounts = @ + 1]

\* the map variables as a record, to thread through the effects
MapState == [view |-> view, maps |-> maps, mounts |-> mounts,
             unmounts |-> unmounts]

\* the map variables take the values of st
Commit(st) ==
    /\ view' = st.view
    /\ maps' = st.maps
    /\ mounts' = st.mounts
    /\ unmounts' = st.unmounts

\* no MapView is mounted and no map was created yet
MapIdle ==
    /\ view = NoView
    /\ maps = << >>
    /\ mounts = 0
    /\ unmounts = 0

\* the props of <MapView> in DashboardPage
DashboardMapProps(devs) ==
    [devices |-> devs, alerts |-> << >>,
     center |-> <<6800000, 80800000>>, zoom |-> 11]

\* the props of <MapView> in MapPage
MapPageMapProps(devs, als) ==
    [devices |-> devs, alerts |-> als,
     center |-> <<6800000, 80800000>>, zoom |-> 12]

\* the props of <MapView> in DeviceDetailModal
DetailMapProps(device) ==
    [devices |-> <<device>>, alerts |-> << >>,
     center |-> <<device.location.lat, device.location.lng>>, zoom |-> 14]

\* the ledgers a MapView is given: the seed ledger and the ledgers after
\* one fired tick
SampleLedgers(devs) ==
    {mockAlerts} \cup
    { Prepend(NewAlert(devs[i], IntervalMs, rId, rLat, rLng), mockAlerts) :
        i \in 1..Len(devs), rId \in IdDraws, rLat \in LatDraws,
        rLng \in LngDraws }

\* What a render passes to the MapView: the props of one of the three
\* places that render it, and whether center and the data arrays are new
\* objects. MapPage passes the devices and alerts arrays of App, the other
\* arrays are inline literals.
ViewElements ==
    { [props |-> DashboardMapProps(devices), newCenter |-> TRUE,
       newData |-> TRUE] } \cup
    { [props |-> MapPageMapProps(devices, als), newCenter |-> TRUE,
       newData |-> FALSE] : als \in SampleLedgers(devices) } \cup
    { [props |-> DetailMapProps(devices[i]), newCenter |-> TRUE,
       newData |-> TRUE] : i \in 1..Len(devices) }

\* React mounts the MapView
MountView(el) ==
    /\ ~view.mounted
    /\ mounts < MaxMounts
    /\ Commit(Mount(MapState, el.props, TRUE))
    /\ UNCHANGED appVars

\* React runs the effects of a mounting MapView while mapContainerRef.current
\* is null. React attaches the ref of the view's own div before it runs the
\* effects, so this step is no part of MapSpec; it is the case the test of
\* mapContainerRef.current in the initialization effect provides for.
MountViewDetached(el) ==
    /\ ~view.mounted
    /\ mounts < MaxMounts
    /\ Commit(Mount(MapState, el.props, FALSE))
    /\ UNCHANGED appVars

\* React re-renders the mounted MapView
RenderView(el) ==
    /\ view.mounted
    /\ Commit(Update(MapState, el.props, el.newCenter, el.newData))
    /\ UNCHANGED appVars

\* React unmounts the MapView
UnmountView ==
    /\ view.mounted
    /\ Commit(Unmount(MapState))
    /\ UNCHANGED appVars

\* map.invalidateSize() on a map
InvalidateSize(m) ==
    [m EXCEPT !.sizeFix = IF m.alive THEN "applied" ELSE "afterRemove"]

\* The setTimeout callback of map m runs. Nothing cancels it, so it runs
\* whether or not the map was removed meanwhile.
ResizeCallback(m) ==
    /\ maps[m].sizeFix = "pending"
    /\ maps' = [maps EXCEPT ![m] = InvalidateSize(@)]
    /\ UNCHANGED <<view, mounts, unmounts>>
    /\ UNCHANGED appVars

----------------------------------------------------------------------------
(* The specifications *)

Init == AppInit /\ MapIdle

Next ==
    \/ \E rCoin \in CoinDraws, rDev \in DeviceDraws, rId \in IdDraws,
          rLat \in LatDraws, rLng \in LngDraws :
          Tick(rCoin, rDev, rId, rLat, rLng)
    \/ Acknowledge
    \/ \E page \in NavPage : Navigate(page)
    \/ OpenSidebar
    \/ CloseSidebar
    \/ \E i \in 1..Len(devices) : SelectDevice(devices[i])
    \/ CloseDeviceDetail
    \/ Teardown

\* the session of App
Spec == Init /\ [][Next]_vars

MapNext ==
    \/ \E el \in ViewElements : MountView(el)
    \/ \E el \in ViewElements : RenderView(el)
    \/ UnmountView
    \/ \E m \in 1..Len(maps) : ResizeCallback(m)

\* one MapView
MapSpec == Init /\ [][MapNext]_vars

DetachedNext ==
    \/ \E el \in ViewElements : MountView(el)
    \/ \E el \in ViewElements : MountViewDetached(el)
    \/ \E el \in ViewElements : RenderView(el)
    \/ UnmountView

\* one MapView whose container may be absent at a mount. The resize
\* callback of a map, which needs a map created with a container, is left
\* to MapSpec.
DetachedSpec == Init /\ [][DetachedNext]_vars

----------------------------------------------------------------------------
(* Claims about the session of App, checked under Spec *)

\* the alerts synthesized so far, newest first
Synthesized == SubSeq(alerts, 1, Len(alerts) - Len(mockAlerts))

\* C1: every step that changes the alert ledger prepends exactly one alert:
\* the new ledger is one new alert followed by the old ledger unchanged.
\* Hence the seed alerts stay, in order, at the end of the ledger, and the
\* ledger is in reverse order of insertion.
C1_LedgerPrependOnly ==
    /\ [](/\ Len(alerts) >= Len(mockAlerts)
          /\ SubSeq(alerts, Len(alerts) - Len(mockAlerts) + 1, Len(alerts))
                 = mockAlerts
          /\ \A i \in 1..Len(Synthesized) - 1 :
                 alerts[i].timestamp > alerts[i + 1].timestamp)
    /\ [][alerts' # alerts =>
             /\ Len(alerts') = Len(alerts) + 1
             /\ SubSeq(alerts', 2, Len(alerts')) = alerts]_vars

\* two alerts were appended to the seed ledger
C1_Witness ==
    /\ Len(alerts) = Len(mockAlerts) + 2
    /\ alerts[1] # alerts[2]

\* C2: the alert of the notification modal is none or one alert of severity
\* High, and it is none as long as the timer callback has not run.
C2_ActiveAlertNoneOrHigh ==
    /\ highSeverityAlert = Null \/ highSeverityAlert.severity = High
    /\ ticks = 0 => highSeverityAlert = Null

\* the modal shows an alert
C2_Witness == highSeverityAlert # Null /\ highSeverityAlert.severity = High

\* C3: a fired tick leaves its own alert in the modal, also when the modal
\* already showed an alert that was not acknowledged: the alert shown is
\* then the second one, the one replaced is next in the ledger.
C3_LastWriteWins ==
    /\ [](preempted # Null =>
             /\ highSeverityAlert = alerts[1]
             /\ preempted = alerts[2]
             /\ highSeverityAlert # preempted)
    /\ [][alerts' # alerts => highSeverityAlert' = alerts'[1]]_vars

\* a tick fired while the modal showed an earlier alert
C3_Witness ==
    /\ preempted # Null
    /\ highSeverityAlert # Null
    /\ highSeverityAlert.timestamp > preempted.timestamp

\* C4: Acknowledge leaves no alert in the modal; the modal gets an alert
\* only by a step that appends that High alert to the ledger; and only
\* Acknowledge takes the alert away.
C4_AcknowledgeClears ==
    [][/\ Acknowledge => highSeverityAlert' = Null
       /\ (highSeverityAlert = Null /\ highSeverityAlert' # Null) =>
              /\ alerts' = <<highSeverityAlert'>> \o alerts
              /\ highSeverityAlert'.severity = High
       /\ (highSeverityAlert # Null /\ highSeverityAlert' = Null) =>
              Acknowledge]_vars

\* an alert was shown and acknowledged, and the timer ran again since
\* without firing
C4_Witness ==
    /\ highSeverityAlert = Null
    /\ Len(alerts) > Len(mockAlerts)
    /\ ticks * IntervalMs > alerts[1].timestamp

C7_TimerCancelledOnTeardown ==
    /\ [](/\ intervalsCreated = 1
          /\ intervalsCleared = (IF appMounted THEN 0 ELSE 1)
          /\ intervalActive <=> appMounted)
    /\ [][~appMounted =>
             /\ ticks' = ticks
             /\ alerts' = alerts
             /\ highSeverityAlert' = highSeverityAlert]_vars

\* App was torn down while the timer had runs left and an alert was shown
C7_Witness ==
    /\ ~appMounted
    /\ ticks > 0
    /\ ticks < MaxTicks
    /\ highSeverityAlert # Null

\* the positions of the ledger full whose alert belongs to device id
MatchingPositions(full, id) == {i \in 1..Len(full) : full[i].deviceId = id}

\* sub lists exactly the alerts of device id in full, in the order of full
IsDeviceSubsequence(sub, full, id) ==
    LET pos == MatchingPositions(full, id)
        nth(k) == CHOOSE i \in pos : Cardinality({j \in pos : j < i}) = k - 1
    IN  /\ Len(sub) = Cardinality(pos)
        /\ \A k \in 1..Len(sub) : sub[k] = full[nth(k)]

\* the device ids of data.ts and one that no device has
SomeDeviceIds == {mockDevices[i].id : i \in 1..Len(mockDevices)} \cup {"D999"}

\* C8: the alerts handed to DeviceDetailModal are exactly the alerts of the
\* selected device, in ledger order; and so is the filter of the ledger by
\* any device id.
C8_ByDeviceIsSubsequence ==
    /\ selectedDevice # Null /\ appMounted =>
           IsDeviceSubsequence(detailAlerts, alerts, selectedDevice.id)
    /\ \A id \in SomeDeviceIds :
           IsDeviceSubsequence(AlertsOfDevice(alerts, id), alerts, id)

\* the modal of a device lists a synthesized alert before two seed alerts,
\* out of a ledger that holds alerts of other devices
C8_Witness ==
    /\ appMounted
    /\ selectedDevice # Null
    /\ Len(detailAlerts) >= 3
    /\ Len(detailAlerts) < Len(alerts)
    /\ detailAlerts[1] = alerts[1]

\* the source device of an alert of the ledger
SourceDevices(alert) ==
    {j \in 1..Len(devices) : devices[j].id = alert.deviceId}

\* the distance of two coordinates
Dist(a, b) == IF a >= b THEN a - b ELSE b - a

\* C12: every synthesized alert has one source device among the devices,
\* and lies within 0.005 degrees (5000 micro-degrees) of it in latitude and
\* in longitude; the perturbation is within that radius for every draw.
C12_AlertWithinRadius ==
    /\ \A i \in 1..Len(Synthesized) :
           /\ Cardinality(SourceDevices(alerts[i])) = 1
           /\ \A j \in SourceDevices(alerts[i]) :
                  /\ Dist(alerts[i].location.lat,
                          devices[j].location.lat) <= 5000
                  /\ Dist(alerts[i].location.lng,
                          devices[j].location.lng) <= 5000
    /\ \A r \in 0..(RandomScale - 1) : Dist(Noise(r), 0) <= 5000

\* an alert was synthesized at the edge of the radius: the lowest draw in
\* latitude, the highest in longitude
C12_Witness ==
    /\ Len(Synthesized) >= 1
    /\ \E j \in SourceDevices(alerts[1]) :
           /\ alerts[1].location.lat = devices[j].location.lat - 5000
           /\ alerts[1].location.lng = devices[j].location.lng + 4990

\* C13: a run of the timer callback whose coin draw is at most 0.9 changes
\* nothing of the session: the ledger, the modal's alert, the devices, the
\* page, the sidebar, the selected device and its alerts, the timer and the
\* maps stay as they were, and nothing is thrown, with or without devices.
\* Only the count of callback runs moves.
C13_SilentTickNoEffect ==
    [][\A rCoin \in CoinDraws, rDev \in DeviceDraws, rId \in IdDraws,
          rLat \in LatDraws, rLng \in LngDraws :
          (rCoin <= FireThreshold /\ Tick(rCoin, rDev, rId, rLat, rLng)) =>
              /\ ticks' = ticks + 1
              /\ UNCHANGED <<activePage, isSidebarOpen, alerts, devices,
                             highSeverityAlert, selectedDevice, appMounted,
                             intervalActive, intervalsCreated,
                             intervalsCleared, uncaught, preempted,
                             detailAlerts>>
              /\ UNCHANGED mapVars]_vars

\* the first run of the callback fired and the second did not: the alert
\* of the first is still the head of the ledger and still in the modal
C13_Witness ==
    /\ ticks = 2
    /\ Len(alerts) = Len(mockAlerts) + 1
    /\ alerts[1].timestamp = IntervalMs
    /\ highSeverityAlert = alerts[1]
    /\ uncaught = 0

\* C14: the step that takes the alert out of the modal changes nothing but
\* the modal: the ledger is the same sequence before and after, so the
\* acknowledged alert is in the ledger before the step and at the same
\* position after it; devices, page, sidebar, selection, timer and maps are
\* untouched.
C14_AcknowledgeKeepsLedger ==
    [][(Acknowledge \/ (highSeverityAlert # Null /\ highSeverityAlert' = Null))
         =>
           /\ alerts' = alerts
           /\ \E i \in 1..Len(alerts) : alerts[i] = highSeverityAlert
           /\ \A i \in 1..Len(alerts) :
                  alerts[i] = highSeverityAlert =>
                      /\ i <= Len(alerts')
                      /\ alerts'[i] = highSeverityAlert
           /\ UNCHANGED <<activePage, isSidebarOpen, devices, selectedDevice,
                          appMounted, intervalActive, intervalsCreated,
                          intervalsCleared, ticks, uncaught, detailAlerts>>
           /\ UNCHANGED mapVars]_vars

\* the alert of the latest run of the callback was acknowledged at once: it
\* is out of the modal and still the head of the ledger
C14_Witness ==
    /\ appMounted
    /\ highSeverityAlert = Null
    /\ Len(alerts) = Len(mockAlerts) + 1
    /\ alerts[1].severity = High
    /\ alerts[1].timestamp = ticks * IntervalMs

\* C16 (as claimed): any two entries of the ledger at different positions
\* have different ids, among seed alerts and synthesized alerts alike.
C16_AlertIdsUnique ==
    \A i, j \in 1..Len(alerts) : i # j => alerts[i].id # alerts[j].id

\* C18: whenever the modal holds an alert, that alert is a synthesized one
\* and the head of the ledger, so the modal never shows an alert the
\* ledger lacks; and every step that makes the ledger longer puts the new
\* head into the modal.
C18_ActiveAlertIsLedgerHead ==
    /\ [](highSeverityAlert # Null =>
             /\ Len(Synthesized) >= 1
             /\ highSeverityAlert = Head(alerts))
    /\ [][Len(alerts') > Len(alerts) =>
              /\ highSeverityAlert' # Null
              /\ highSeverityAlert' = Head(alerts')]_vars

\* a first alert was acknowledged and a second one appended since: the
\* modal shows the second, the head of the ledger
C18_Witness ==
    /\ Len(Synthesized) = 2
    /\ preempted = Null
    /\ highSeverityAlert # Null
    /\ highSeverityAlert = alerts[1]
    /\ highSeverityAlert # alerts[2]

----------------------------------------------------------------------------
(* Claims about a MapView, checked under MapSpec *)

RECURSIVE SumRemoves(_)
\* the number of map.remove() calls on the maps ms
SumRemoves(ms) ==
    IF ms = << >> THEN 0 ELSE Head(ms).removes + SumRemoves(Tail(ms))

\* the maps that are on the page
AliveMaps == {m \in 1..Len(maps) : maps[m].alive}

\* C6: one map is created per mount and one removed per unmount: the
\* number of maps created equals the number of mounts, the number of
\* remove() calls equals the number of unmounts, no map is removed twice,
\* the only map alive is the one of the mounted view, and none is alive
\* when no view is mounted.
C6_CreateDisposePaired ==
    /\ Len(maps) = mounts
    /\ SumRemoves(maps) = unmounts
    /\ mounts = unmounts + (IF view.mounted THEN 1 ELSE 0)
    /\ \A m \in 1..Len(maps) :
           /\ maps[m].removes <= 1
           /\ maps[m].alive <=> maps[m].removes = 0
    /\ AliveMaps = (IF view.mounted THEN {view.mapRef} ELSE {})

\* two mount/unmount cycles are over
C6_Witness ==
    /\ ~view.mounted
    /\ mounts = 2
    /\ unmounts = 2
    /\ Len(maps) = 2

\* the colour a marker shows
MarkerColour(layer) ==
    IF layer.icon = "bg-green-500" THEN "green"
    ELSE IF layer.icon = "bg-yellow-500" THEN "yellow"
    ELSE IF layer.icon = "bg-red-500" THEN "red"
    ELSE "other"

\* the marker the claim asks for a device
IsMarkerOf(layer, device) ==
    /\ layer.kind = "marker"
    /\ layer.lat = device.location.lat
    /\ layer.lng = device.location.lng
    /\ layer.popup.device = device.id
    /\ MarkerColour(layer) =
           (CASE device.status = Online -> "green"
              [] device.status = LowBattery -> "yellow"
              [] device.status = Offline -> "red")

\* the circle the claim asks for an alert
IsCircleOf(layer, alert) ==
    /\ layer.kind = "circle"
    /\ layer.lat = alert.location.lat
    /\ layer.lng = alert.location.lng
    /\ layer.popup.alert = alert.id
    /\ layer.color = (IF alert.severity = High THEN "red" ELSE "orange")

\* the positions of the alerts of als that are not Resolved
Unresolved(als) == {i \in 1..Len(als) : als[i].severity # Resolved}

\* layers holds one marker per device of devs and one circle per alert of
\* als that is not Resolved, and nothing else
IsOverlayOf(layers, devs, als) ==
    LET pos == Unresolved(als)
        nth(k) == CHOOSE i \in pos : Cardinality({j \in pos : j < i}) = k - 1
    IN  /\ Len(layers) = Len(devs) + Cardinality(pos)
        /\ \A i \in 1..Len(devs) : IsMarkerOf(layers[i], devs[i])
        /\ \A k \in 1..Cardinality(pos) :
               IsCircleOf(layers[Len(devs) + k], als[nth(k)])

\* the layers of the map of the mounted view
ViewLayers == maps[view.mapRef].layers

\* the layers of `layers` at a position
LayersAt(layers, lat, lng) ==
    {i \in 1..Len(layers) : layers[i].lat = lat /\ layers[i].lng = lng}

\* C9: the overlay of the live map of a mounted view is the one of the
\* view's current devices and alerts: a marker per device, coloured by
\* status, a circle per alert that is not Resolved, red when High and
\* orange otherwise, nothing of earlier syncs. For device D101 alone with
\* the seed alert A001 alone, that is one green marker and one red circle
\* at (6.80, 80.80).
C9_OverlayMatchesSnapshot ==
    /\ view.mounted /\ view.mapRef # 0 =>
           IsOverlayOf(ViewLayers, view.props.devices, view.props.alerts)
    /\ LET layers == OverlaySync(<< >>, SubSeq(mockDevices, 1, 1),
                                 SubSeq(mockAlerts, 1, 1))
       IN  /\ Len(layers) = 2
           /\ LayersAt(layers, 6800000, 80800000) = {1, 2}
           /\ layers[1].kind = "marker" /\ MarkerColour(layers[1]) = "green"
           /\ layers[2].kind = "circle" /\ layers[2].color = "red"

\* the map of MapPage was synced again after the ledger grew; it shows the
\* marker of each device, no circle for the Resolved seed alerts, a red
\* circle for the new alert and orange ones for the Medium and Low alerts
C9_Witness ==
    /\ view.mounted
    /\ view.mapRef # 0
    /\ "overlay" \in view.effects
    /\ view.prevProps # Null
    /\ view.prevProps.alerts # view.props.alerts
    /\ Len(view.props.alerts) = Len(mockAlerts) + 1
    /\ Len(view.props.devices) >= 1
    /\ Len(ViewLayers) = Len(view.props.devices) + 4
    /\ \E i \in 1..Len(ViewLayers) :
           ViewLayers[i].kind = "circle" /\ ViewLayers[i].color = "orange"

\* C10: a step that leaves the view mounted on the same map with the same
\* devices and alerts leaves the overlay as it was, however often the sync
\* runs.
C10_OverlaySyncIdempotent ==
    [][(/\ view.mounted /\ view'.mounted
        /\ mounts' = mounts
        /\ view.mapRef # 0
        /\ view'.props.devices = view.props.devices
        /\ view'.props.alerts = view.props.alerts) =>
           maps'[view.mapRef].layers = maps[view.mapRef].layers]_vars

\* the sync has just run again with the devices and alerts of the render
\* before, on a map that shows layers
C10_Witness ==
    /\ view.mounted
    /\ view.mapRef # 0
    /\ "overlay" \in view.effects
    /\ view.prevProps # Null
    /\ view.prevProps.devices = view.props.devices
    /\ view.prevProps.alerts = view.props.alerts
    /\ Len(ViewLayers) >= 1

\* the map variables as the camera effect leaves them when it runs with the
\* center and zoom of props
AfterCameraSync(props) ==
    CameraEffect([MapState EXCEPT !.view.props = props])

\* C11: the camera of the live map of a mounted view is the view's latest
\* center and zoom. A step that keeps the view mounted creates no map,
\* removes none and keeps the view on its map, also when center or zoom
\* change; and the camera effect alone, run with the center and zoom of any
\* render, leaves the number of maps, the remove() calls and the layers of
\* every map as they were and the camera at that center and zoom.
C11_CameraSyncInPlace ==
    /\ [](view.mounted /\ view.mapRef # 0 =>
             /\ maps[view.mapRef].alive
             /\ maps[view.mapRef].center = view.props.center
             /\ maps[view.mapRef].zoom = view.props.zoom
             /\ \A el \in ViewElements :
                    LET after == AfterCameraSync(el.props)
                    IN  /\ Len(after.maps) = Len(maps)
                        /\ after.mounts = mounts
                        /\ after.unmounts = unmounts
                        /\ after.view.mapRef = view.mapRef
                        /\ \A m \in 1..Len(maps) :
                               /\ after.maps[m].layers = maps[m].layers
                               /\ after.maps[m].removes = maps[m].removes
                               /\ after.maps[m].alive = maps[m].alive
                        /\ after.maps[view.mapRef].center = el.props.center
                        /\ after.maps[view.mapRef].zoom = el.props.zoom)
    /\ [][view.mounted /\ view'.mounted /\ mounts' = mounts =>
              /\ Len(maps') = Len(maps)
              /\ SumRemoves(maps') = SumRemoves(maps)
              /\ unmounts' = unmounts
              /\ view'.mapRef = view.mapRef]_vars

\* a render moved the camera of a map that shows layers: the map of the
\* mount is still the view's map, at the new center and zoom
C11_Witness ==
    /\ view.mounted
    /\ view.mapRef # 0
    /\ view.prevProps # Null
    /\ "camera" \in view.effects
    /\ view.prevProps.center # view.props.center
    /\ view.prevProps.zoom # view.props.zoom
    /\ maps[view.mapRef].zoom = view.props.zoom
    /\ maps[view.mapRef].center = view.props.center
    /\ Len(ViewLayers) >= 1
    /\ Len(maps) = 1
    /\ unmounts = 0

\* C17 (as claimed): the resize callback of a map never calls
\* invalidateSize() on a map that was removed: when the view is unmounted
\* before the callback is due, the callback does not run or does not reach
\* the map.
C17_NoResizeAfterRemove ==
    \A m \in 1..Len(maps) : maps[m].sizeFix # "afterRemove"

----------------------------------------------------------------------------
(* Claims about a MapView without container, checked under DetachedSpec *)

\* C15: a mount without container creates no map and throws nothing. As
\* long as that view is mounted, and when it is unmounted, no map is
\* created, the view has no map and no layer group, and no map on the page
\* is touched: renders and the unmount are no-ops. A map is created only by
\* a mount with a container, and every such mount creates one, also after
\* a mount without.
C15_AbsentContainerNoOp ==
    /\ [](view.mounted /\ view.mapRef = 0 =>
             /\ view.dataLayerRef = 0
             /\ AliveMaps = {}
             /\ uncaught = 0)
    /\ [][/\ (\E el \in ViewElements : MountViewDetached(el)) =>
                 /\ maps' = maps
                 /\ view'.mounted
                 /\ view'.mapRef = 0
                 /\ view'.effects = {"init", "camera", "overlay"}
          /\ (view.mounted /\ view.mapRef = 0) =>
                 /\ view'.mapRef = 0
                 /\ view'.dataLayerRef = 0
                 /\ maps' = maps
                 /\ uncaught' = uncaught
          /\ Len(maps') # Len(maps) =>
                 /\ ~view.mounted
                 /\ \E el \in ViewElements : MountView(el)
          /\ (\E el \in ViewElements : MountView(el)) =>
                 /\ Len(maps') = Len(maps) + 1
                 /\ view'.mapRef = Len(maps')
                 /\ maps'[view'.mapRef].alive]_vars

\* after a mount with a container and its unmount, a view was mounted
\* without container and rendered again: both syncs ran, there is still the
\* one map of the first mount, removed, and the view has none
C15_Witness ==
    /\ view.mounted
    /\ view.mapRef = 0
    /\ view.prevProps # Null
    /\ view.effects = {"camera", "overlay"}
    /\ mounts = 2
    /\ unmounts = 1
    /\ Len(maps) = 1
    /\ ~maps[1].alive

====
